---- MODULE Spec2Model ----
(***************************************************************************)
(* DatabuzzOxxo backend: the location-scoring service                      *)
(* (backend/app/services/prediction_service.py over data_service.py and    *)
(* the pydantic models of backend/app/models/location.py).                 *)
(*                                                                         *)
(* Numbers.  The code computes in binary floating point; the model         *)
(* computes in exact rationals kept as integers over fixed denominators:   *)
(*   performance ratio   r / RatioDen          (RatioDen = 20)             *)
(*   score               s / ScoreDen          (ScoreDen = 30)             *)
(*   probability         p / FixOne            (FixOne = 1000)             *)
(*   expected sales      e / RatioDen  pesos                               *)
(*   latitude, longitude tenths of a degree ("ticks"); distances from a    *)
(*                       centre in half ticks; map points in 1/(2*n_lat)   *)
(*                       and 1/(2*n_lng) of a tick                         *)
(*   radius              1/200 km                                          *)
(* A decimal literal d of the code is the integer 10*d ("tenths").         *)
(* Python's None is the empty sequence <<>>, a present value v is <<v>>.   *)
(***************************************************************************)
EXTENDS Integers, Sequences, FiniteSets, TLC

(***************************************************************************)
(* Literals of the code.                                                   *)
(***************************************************************************)
ExcellentRatioTenths == 15
SigmoidSteepness == 5
SigmoidCenterTenths == 8
ExcellentTenths == 8
GoodTenths == 6
ModerateTenths == 4
GreenTenths == 8
BlueTenths == 6
AmberTenths == 4
TopN == 5
n_lat == 10
n_lng == 10
GridLowTenths == 3
GridHighTenths == 9
KmPerDegree == 111
MarginTenths == 15
NearbyRadiusKm == 2
ForecastMonths == 6

(***************************************************************************)
(* Bounds of the model.                                                    *)
(***************************************************************************)
MaxNegRatio == 2
MaxIntercept == 2
MaxSlope == 1
MaxDoors == 40
MaxTrain == 5
MaxTest == 2
MaxClock == 1
MaxSeed == 1

(***************************************************************************)
(* Denominators.  With RatioDen = 4 * SigmoidSteepness one ratio step      *)
(* moves the sigmoid's exponent by a quarter, and ratio / 1.5 is a whole   *)
(* number of ScoreDen-ths.                                                 *)
(***************************************************************************)
RatioDen == 4 * SigmoidSteepness
ScoreDen == (ExcellentRatioTenths * RatioDen) \div 10
FixOne == 1000
ExpQuarter == 1284

Min(a, b) == IF a <= b THEN a ELSE b
Max(a, b) == IF a >= b THEN a ELSE b

None == <<>>
Some(v) == <<v>>
IsNone(o) == o = <<>>
Value(o) == o[1]

(***************************************************************************)
(* The closed enumerations of StoreLocation and its coordinate window.     *)
(***************************************************************************)
nivel_cats == <<"A", "AB", "B", "BC", "C", "CD", "D">>
entorno_cats == <<"Base", "Hogar", "Peatonal", "Receso">>
segmento_cats ==
    <<"Barrio Competido", "Clasico", "Hogar Reunion", "Oficinistas", "Parada Tecnica">>

Range(s) == {s[i] : i \in 1..Len(s)}

\* A variant of StoreLocationValid: the three category validators are left
\* out.
StoreLocationValidAnyCategory(row) ==
    /\ row.plazaCve >= 1
    /\ row.mts2Ventas > 0
    /\ row.puertasRefrig >= 0
    /\ row.cajonesEstacionamiento >= 0
    /\ row.latitud >= 140 /\ row.latitud <= 330
    /\ row.longitud >= 0 - 1185 /\ row.longitud <= 0 - 865

\* A variant of StoreLocationValid: the limits of latitud and longitud are
\* themselves rejected.
StoreLocationValidOpenLimits(row) ==
    /\ row.plazaCve >= 1
    /\ row.nivelSocioeconomico \in Range(nivel_cats)
    /\ row.entorno \in Range(entorno_cats)
    /\ row.segmentoMaestro \in Range(segmento_cats)
    /\ row.mts2Ventas > 0
    /\ row.puertasRefrig >= 0
    /\ row.cajonesEstacionamiento >= 0
    /\ row.latitud > 140 /\ row.latitud < 330
    /\ row.longitud > 0 - 1185 /\ row.longitud < 0 - 865

\* StoreLocation(**row): the validators that a record must pass to be built.
StoreLocationValid(row) ==
    /\ row.plazaCve >= 1
    /\ row.nivelSocioeconomico \in Range(nivel_cats)
    /\ row.entorno \in Range(entorno_cats)
    /\ row.segmentoMaestro \in Range(segmento_cats)
    /\ row.mts2Ventas > 0
    /\ row.puertasRefrig >= 0
    /\ row.cajonesEstacionamiento >= 0
    /\ row.latitud >= 140 /\ row.latitud <= 330
    /\ row.longitud >= 0 - 1185 /\ row.longitud <= 0 - 865

(***************************************************************************)
(* The Scorer.                                                            *)
(***************************************************************************)

\* np.exp(k/4) in fixed point (FixOne = 1.0), rounded toward zero:
\* ExpQuarter = e^(1/4) = 1.284..., exp(0) = 1.0 exactly.  Powers above
\* FixOne * FixOne are not multiplied further: their reciprocal is 0.
RECURSIVE ExpUp(_, _)
ExpUp(p, n) ==
    IF n = 0 \/ p > FixOne * FixOne THEN p
    ELSE ExpUp((p * ExpQuarter) \div FixOne, n - 1)

ExpPos(k) == ExpUp(FixOne, k)

np_exp(k) == IF k >= 0 THEN ExpPos(k) ELSE (FixOne * FixOne) \div ExpPos(0 - k)

\* The exponent -5 * (performance_ratio - 0.8), in quarters.
SigmoidExponent(r) ==
    0 - ((4 * SigmoidSteepness * (10 * r - SigmoidCenterTenths * RatioDen))
            \div (10 * RatioDen))

\* A mutant of _calculate_success_probability: the sigmoid centred at 1.0.
calculate_success_probability_center10(r) ==
    IF r <= 0 THEN 0
    ELSE Min(Max((FixOne * FixOne) \div (FixOne + np_exp(SigmoidExponent(r - 4))), 0),
             FixOne)

_calculate_success_probability(performance_ratio) ==
    IF performance_ratio <= 0 THEN 0
    ELSE LET prob == (FixOne * FixOne)
                        \div (FixOne + np_exp(SigmoidExponent(performance_ratio)))
         IN  Min(Max(prob, 0), FixOne)

\* A mutant of ComputeScore: the upper clamp is missing.
ComputeScoreNoUpperClamp(r) == Max((10 * r * ScoreDen) \div (ExcellentRatioTenths * RatioDen), 0)

\* score = min(max(performance_ratio / 1.5, 0.0), 1.0)
ComputeScore(performance_ratio) ==
    Min(Max((10 * performance_ratio * ScoreDen) \div (ExcellentRatioTenths * RatioDen), 0),
        ScoreDen)

\* score >= t/10
AtLeastTenths(score, t) == 10 * score >= t * ScoreDen

\* A mutant of _generate_recommendation: the band follows the probability.
generate_recommendation_by_probability(score, expected_sales, probability, location) ==
    [template |-> IF 10 * probability >= ExcellentTenths * FixOne THEN "excellent"
                  ELSE IF 10 * probability >= GoodTenths * FixOne THEN "good"
                  ELSE IF 10 * probability >= ModerateTenths * FixOne THEN "moderate"
                  ELSE "low",
     expected_sales |-> expected_sales,
     entorno |-> location.entorno,
     probability |-> probability]

\* The recommendation text: one of four templates, filled with the expected
\* sales, the environment and the probability.
_generate_recommendation(score, expected_sales, probability, location) ==
    [template |-> IF AtLeastTenths(score, ExcellentTenths) THEN "excellent"
                  ELSE IF AtLeastTenths(score, GoodTenths) THEN "good"
                  ELSE IF AtLeastTenths(score, ModerateTenths) THEN "moderate"
                  ELSE "low",
     expected_sales |-> expected_sales,
     entorno |-> location.entorno,
     probability |-> probability]

\* A mutant of _get_color_for_score: blue starts at 0.5.
get_color_for_score_blue_at_05(score) ==
    IF AtLeastTenths(score, GreenTenths) THEN "#10b981"
    ELSE IF AtLeastTenths(score, 5) THEN "#3b82f6"
    ELSE IF AtLeastTenths(score, AmberTenths) THEN "#f59e0b"
    ELSE "#ef4444"

_get_color_for_score(score) ==
    IF AtLeastTenths(score, GreenTenths) THEN "#10b981"
    ELSE IF AtLeastTenths(score, BlueTenths) THEN "#3b82f6"
    ELSE IF AtLeastTenths(score, AmberTenths) THEN "#f59e0b"
    ELSE "#ef4444"

\* A mutant of PredictionResponseValid: expectedSales is not validated.
PredictionResponseValidNoSales(score, expectedSales, probability) ==
    /\ score >= 0 /\ score <= ScoreDen
    /\ probability >= 0 /\ probability <= FixOne

\* PredictionResponse(...): the Field constraints ge=0, le=1 of the model.
PredictionResponseValid(score, expectedSales, probability) ==
    /\ score >= 0 /\ score <= ScoreDen
    /\ expectedSales >= 0
    /\ probability >= 0 /\ probability <= FixOne

(***************************************************************************)
(* The data service: the loaded datasets and the target table.             *)
(***************************************************************************)

\* One row of DIM_TIENDA.csv / DIM_TIENDA_TEST.csv after _preprocess_store_data,
\* which is also the shape of a StoreLocation.
Row(id, lat, lng, entorno, doors) ==
    [tiendaId |-> id, plazaCve |-> 1, nivelSocioeconomico |-> "C", entorno |-> entorno,
     mts2Ventas |-> 100, puertasRefrig |-> doors, cajonesEstacionamiento |-> 0,
     latitud |-> lat, longitud |-> lng, segmentoMaestro |-> "Clasico"]

\* The store rows the datasets are drawn from: the training file holds the
\* first rows, the test file the rows after them.
Catalog ==
    << Row(Some(1), 257, 0 - 1002, "Base", 12),
       Row(Some(2), 256, 0 - 1002, "Hogar", 20),
       Row(Some(3), 257, 0 - 1001, "Base", 12),
       Row(Some(4), 258, 0 - 1002, "Base", 30),
       Row(Some(5), 259, 0 - 1003, "Hogar", 5),
       Row(Some(6), 258, 0 - 1000, "Base", 20),
       Row(Some(0), 255, 0 - 1003, "Hogar", 0),
       Row(Some(8), 260, 0 - 1002, "Hogar", 26),
       Row(Some(9), 254, 0 - 1001, "Base", 12),
       Row(Some(10), 257, 0 - 1005, "Base", 33) >>

\* Meta_venta.csv: rows (ENTORNO_DES, Meta_venta).
TargetRow(entorno, meta) == [ENTORNO_DES |-> entorno, Meta_venta |-> meta]

TargetTables ==
    { <<>>,
      << TargetRow("Base", 480000) >>,
      << TargetRow("Base", 480000), TargetRow("Hogar", 520000) >> }

\* The fitted regressor and scaler, as far as a caller can tell: a function
\* from the feature vector to a performance ratio.  The sampled family is
\* ratio = intercept + slope * puertasRefrig.
Models ==
    { [intercept |-> a, slope |-> b] :
        a \in (0 - MaxNegRatio)..MaxIntercept, b \in 0..MaxSlope }

\* A store row with its three categorical attributes chosen; the stores lie
\* on one meridian, store id at latitude 25.7 + id / 10.
CatRow(id, nivel, entorno, segmento) ==
    [tiendaId |-> id, plazaCve |-> 1, nivelSocioeconomico |-> nivel, entorno |-> entorno,
     mts2Ventas |-> 100, puertasRefrig |-> 12, cajonesEstacionamiento |-> 0,
     latitud |-> IF IsNone(id) THEN 257 ELSE 257 + Value(id),
     longitud |-> 0 - 1002, segmentoMaestro |-> segmento]

\* Venta.csv: one row per store and month.
SaleRow(id, venta) == [TIENDA_ID |-> id, VENTA_TOTAL |-> venta]

\* pd.merge(stores, sales, how='inner') then pd.merge(..., targets, how='left'):
\* one row per store, sale of the store and target row of its entorno; a
\* store without a target row keeps one row with Meta_venta missing (NaN).
RECURSIVE Flatten(_)
Flatten(seqs) == IF seqs = <<>> THEN <<>> ELSE seqs[1] \o Flatten(Tail(seqs))

CombinedRow(store, sale, meta) ==
    [tiendaId |-> store.tiendaId, plazaCve |-> store.plazaCve,
     nivelSocioeconomico |-> store.nivelSocioeconomico, entorno |-> store.entorno,
     mts2Ventas |-> store.mts2Ventas, puertasRefrig |-> store.puertasRefrig,
     cajonesEstacionamiento |-> store.cajonesEstacionamiento,
     latitud |-> store.latitud, longitud |-> store.longitud,
     segmentoMaestro |-> store.segmentoMaestro,
     VENTA_TOTAL |-> sale.VENTA_TOTAL, Meta_venta |-> meta]

_create_combined_dataset(stores, sales, targets) ==
    LET WithTargets(store, sale) ==
            LET rows == SelectSeq(targets, LAMBDA t : t.ENTORNO_DES = store.entorno)
            IN  IF rows = <<>> THEN <<CombinedRow(store, sale, None)>>
                ELSE [k \in 1..Len(rows) |-> CombinedRow(store, sale, Some(rows[k].Meta_venta))]
        OfStore(store) ==
            LET mine == SelectSeq(sales, LAMBDA v : Some(v.TIENDA_ID) = store.tiendaId)
            IN  Flatten([k \in 1..Len(mine) |-> WithTargets(store, mine[k])])
    IN  Flatten([i \in 1..Len(stores) |-> OfStore(stores[i])])

(***************************************************************************)
(* The Feature Encoder.                                                    *)
(***************************************************************************)
ContinuousColumns ==
    <<"plazaCve", "mts2Ventas", "puertasRefrig", "cajonesEstacionamiento",
      "latitud", "longitud">>

ContinuousSet == Range(ContinuousColumns)

CategoricalColumns == <<"nivelSocioeconomico", "entorno", "segmentoMaestro">>

\* The values a categorical column can hold in a CSV file, in the order in
\* which pandas sorts them: the enumeration of the attribute and, for
\* entorno, one value outside it.
SortedValues ==
    [c \in Range(CategoricalColumns) |->
        IF c = "nivelSocioeconomico" THEN nivel_cats
        ELSE IF c = "entorno" THEN <<"Base", "Hogar", "Mall", "Peatonal", "Receso">>
        ELSE segmento_cats]

\* The column pd.get_dummies names for value v of column c.
DummyName(c, v) == c \o "_" \o v

\* A variant of get_dummies_drop_first: the categories of a column are taken
\* in the order of their first row, not sorted.
get_dummies_by_appearance(df) ==
    Flatten([n \in 1..Len(CategoricalColumns) |->
        LET c == CategoricalColumns[n]
            firsts == SelectSeq([i \in 1..Len(df) |-> i],
                                LAMBDA i : \A j \in 1..(i - 1) : df[j][c] # df[i][c])
        IN  IF firsts = <<>> THEN <<>>
            ELSE [k \in 1..(Len(firsts) - 1) |-> DummyName(c, df[firsts[k + 1]][c])]])

\* pd.get_dummies(df[[...]], drop_first=True): per column, one indicator for
\* each value that occurs in df, in sorted order, without the first of them.
get_dummies_drop_first(df) ==
    Flatten([n \in 1..Len(CategoricalColumns) |->
        LET c == CategoricalColumns[n]
            occurring == {df[i][c] : i \in 1..Len(df)}
            present == SelectSeq(SortedValues[c], LAMBDA v : v \in occurring)
        IN  IF present = <<>> THEN <<>>
            ELSE [k \in 1..(Len(present) - 1) |-> DummyName(c, present[k + 1])]])

\* The columns of X as get_training_data returns it.
get_training_data(df) == ContinuousColumns \o get_dummies_drop_first(df)

\* A variant of OwnDummies: the one-row frame is encoded with drop_first=True,
\* which leaves no column of it.
OwnDummiesDropFirst(location) == {}

\* The columns pd.get_dummies gives the one-row frame of a location.
OwnDummies(location) ==
    {DummyName(c, location[c]) : c \in Range(CategoricalColumns)}

\* The value store_location_to_features puts in a column: the attribute of a
\* continuous column, 1 in the indicator of the location's own category
\* (own), 0 in every other column.
FeatureValue(location, own, col) ==
    IF col \in ContinuousSet THEN location[col]
    ELSE IF col \in own THEN 1
    ELSE 0

\* A variant of EncodeInOrder: the fixed layout of the three enumerations,
\* each without its first category.
EncodeByEnumeration(feature_order, location) ==
    LET columns == ContinuousColumns
                      \o [k \in 1..(Len(nivel_cats) - 1) |->
                             DummyName("nivelSocioeconomico", nivel_cats[k + 1])]
                      \o [k \in 1..(Len(entorno_cats) - 1) |->
                             DummyName("entorno", entorno_cats[k + 1])]
                      \o [k \in 1..(Len(segmento_cats) - 1) |->
                             DummyName("segmentoMaestro", segmento_cats[k + 1])]
        own == OwnDummies(location)
    IN  [columns |-> columns,
         values |-> [k \in 1..Len(columns) |-> FeatureValue(location, own, columns[k])]]

\* X = X[feature_order]: every training column is in X by then (its own
\* dummies, the enumerations' columns and the zero-filled rest).
EncodeInOrder(feature_order, location) ==
    LET own == OwnDummies(location)
    IN  [columns |-> feature_order,
         values |-> [k \in 1..Len(feature_order) |->
                        FeatureValue(location, own, feature_order[k])]]

(***************************************************************************)
(* The fitted estimators and their files.                                  *)
(***************************************************************************)

\* StandardScaler.fit on a matrix with the given columns; of the fitted
\* parameters the model keeps the names and the mean of puertasRefrig.
FittedScalers(columns) ==
    { [feature_names_in_ |-> columns, mean_ |-> mu] : mu \in {0} }

\* RandomForestRegressor.fit on the scaled matrix.
FittedModels(columns) ==
    { [intercept |-> m.intercept, slope |-> m.slope, n_features_in_ |-> Len(columns)] :
        m \in Models }

\* joblib.dump(estimator, path): the bytes of the file, the estimator's
\* class followed by its fitted attributes.
joblib_dump(estimator) ==
    IF "feature_names_in_" \in DOMAIN estimator
    THEN <<"StandardScaler", estimator.feature_names_in_, estimator.mean_>>
    ELSE <<"RandomForestRegressor", estimator.intercept, estimator.slope,
           estimator.n_features_in_>>

\* A file that is no pickle (truncated, overwritten).
CorruptFile == <<"corrupt">>

\* A variant of joblib_load: the regressor comes back without its slope.
joblib_load_flat(file) ==
    IF file[1] = "StandardScaler"
    THEN [ok |-> TRUE, value |-> [feature_names_in_ |-> file[2], mean_ |-> file[3]]]
    ELSE IF file[1] = "RandomForestRegressor"
    THEN [ok |-> TRUE,
          value |-> [intercept |-> file[2], slope |-> 0, n_features_in_ |-> file[4]]]
    ELSE [ok |-> FALSE, value |-> None]

\* joblib.load(path): the estimator the bytes describe; raises on bytes that
\* are no pickle.
joblib_load(file) ==
    IF file[1] = "StandardScaler"
    THEN [ok |-> TRUE, value |-> [feature_names_in_ |-> file[2], mean_ |-> file[3]]]
    ELSE IF file[1] = "RandomForestRegressor"
    THEN [ok |-> TRUE,
          value |-> [intercept |-> file[2], slope |-> file[3], n_features_in_ |-> file[4]]]
    ELSE [ok |-> FALSE, value |-> None]

\* Whether _train_model reaches its two joblib.dump calls on the combined
\* dataset df: train_test_split needs two rows, and the regressor and the
\* metrics reject a target that is NaN (a row without Meta_venta).
TrainingDataFits(df) ==
    /\ Len(df) >= 2
    /\ \A i \in 1..Len(df) : ~IsNone(df[i].Meta_venta)

\* _train_model.  fit is the pair of estimators the fit would give, saved
\* how many of the two joblib.dump calls succeed (model first, then scaler).
\* raised: the ValueError("Failed to train model: ...").
_train_model(df, files, fit, saved) ==
    IF ~TrainingDataFits(df)
    THEN [raised |-> TRUE, model |-> None, scaler |-> None,
          model_file |-> files.model_file, scaler_file |-> files.scaler_file]
    ELSE [raised |-> saved < 2, model |-> fit.model, scaler |-> fit.scaler,
          model_file |-> IF saved >= 1 THEN Some(joblib_dump(fit.model))
                         ELSE files.model_file,
          scaler_file |-> IF saved >= 2 THEN Some(joblib_dump(fit.scaler))
                          ELSE files.scaler_file]

\* A variant of _load_or_train_model: a failed training is logged and
\* swallowed.
load_or_train_model_swallowing(df, files, fit, saved) ==
    LET trained == _train_model(df, files, fit, saved)
    IN  [trained EXCEPT !.raised = FALSE,
                        !.model = IF trained.raised THEN None ELSE @,
                        !.scaler = IF trained.raised THEN None ELSE @]

\* _load_or_train_model: load the pair when both files exist, train when one
\* is missing or a load raises.
_load_or_train_model(df, files, fit, saved) ==
    LET both == ~IsNone(files.model_file) /\ ~IsNone(files.scaler_file)
        m == joblib_load(Value(files.model_file))
        sc == joblib_load(Value(files.scaler_file))
    IN  IF both /\ m.ok /\ sc.ok
        THEN [raised |-> FALSE, model |-> m.value, scaler |-> sc.value,
              model_file |-> files.model_file, scaler_file |-> files.scaler_file]
        ELSE _train_model(df, files, fit, saved)

\* The fits a training run on df can give.
Fits(df) ==
    LET columns == get_training_data(df)
    IN  { [model |-> m, scaler |-> sc] :
            m \in FittedModels(columns), sc \in FittedScalers(columns) }

\* The fit a training run after start-up is taken to give: one regressor.
StartupFits(df) ==
    LET columns == get_training_data(df)
    IN  { [model |-> m, scaler |-> sc] :
            m \in {[intercept |-> 0, slope |-> MaxSlope, n_features_in_ |-> Len(columns)]},
            sc \in FittedScalers(columns) }

\* A variant of EnsureFitted: every call trains anew.
EnsureFittedRetraining(m, sc, df, files, fit, saved) ==
    _train_model(df, files, fit, saved)

\* The first two lines of predict_location's try block:
\*   if self.model is None or self.scaler is None: self._load_or_train_model()
EnsureFitted(m, sc, df, files, fit, saved) ==
    IF m = None \/ sc = None
    THEN _load_or_train_model(df, files, fit, saved)
    ELSE [raised |-> FALSE, model |-> m, scaler |-> sc,
          model_file |-> files.model_file, scaler_file |-> files.scaler_file]

\* The outcomes of the joblib.dump calls that matter to a predict_location
\* call: all of them when it has to fit, none when it has not.
SavedChoices(m, sc) == IF m = None \/ sc = None THEN 0..2 ELSE {2}

(***************************************************************************)
(* The store lookup.                                                       *)
(***************************************************************************)

\* A variant of get_store_by_id: the test dataset is searched first.
get_store_by_id_test_first(train, test, store_id) ==
    LET in_test == SelectSeq(test, LAMBDA row : row.tiendaId = Some(store_id))
        store_row == IF Len(in_test) = 0
                     THEN SelectSeq(train, LAMBDA row : row.tiendaId = Some(store_id))
                     ELSE in_test
    IN  IF Len(store_row) = 0 THEN None
        ELSE IF ~StoreLocationValid(store_row[1]) THEN None
        ELSE Some(store_row[1])

\* The body of get_store_by_id: the first row with the id in the training
\* dataset, else in the test dataset, built into a StoreLocation; a row that
\* fails validation raises, which is logged and gives None.
get_store_by_id(train, test, store_id) ==
    LET in_train == SelectSeq(train, LAMBDA row : row.tiendaId = Some(store_id))
        store_row == IF Len(in_train) = 0
                     THEN SelectSeq(test, LAMBDA row : row.tiendaId = Some(store_id))
                     ELSE in_train
    IN  IF Len(store_row) = 0 THEN None
        ELSE IF ~StoreLocationValid(store_row[1]) THEN None
        ELSE Some(store_row[1])

\* @lru_cache(maxsize=128): a call with an argument seen before returns what
\* the first call returned (the model looks up fewer than 128 ids).
lru_cache_call(cache, store_id, value) ==
    IF store_id \in DOMAIN cache THEN cache[store_id] ELSE value

lru_cache_put(cache, store_id, value) ==
    [k \in DOMAIN cache \cup {store_id} |->
        IF k \in DOMAIN cache THEN cache[k] ELSE value]

VARIABLES
    stores_df,         \* DataService._stores_df: the training stores
    test_stores_df,    \* DataService._test_stores_df: the test stores
    sales_df,          \* DataService._sales_df
    sales_target_df,   \* DataService._sales_target_df
    combined_df,       \* DataService._combined_df
    model,             \* PredictionService.model
    scaler,            \* PredictionService.scaler
    model_file,        \* the file at model_path (None: no file)
    scaler_file,       \* the file at scaler_path (None: no file)
    service,           \* whether the PredictionService object exists
    clock,             \* datetime.now(), in whole seconds
    logFiles,          \* the files of <data_path>/prediction_logs, by their second
    store_cache,       \* the lru_cache of DataService.get_store_by_id
    response           \* what the running request hands back to its caller

vars == <<stores_df, test_stores_df, sales_df, sales_target_df, combined_df, model, scaler,
          model_file, scaler_file, service, clock, logFiles, store_cache, response>>

dataVars == <<stores_df, test_stores_df, sales_df, sales_target_df, combined_df>>
modelVars == <<model, scaler, model_file, scaler_file, service>>

get_sales_target_for_environment(table, environment) ==
    LET target_row == SelectSeq(table, LAMBDA row : row.ENTORNO_DES = environment)
    IN  IF Len(target_row) = 0 THEN None ELSE Some(target_row[1].Meta_venta)

\* store_location_to_features: the location's row in the columns, and the
\* column order, of the training matrix of the combined dataset df.
store_location_to_features(df, location) ==
    EncodeInOrder(get_training_data(df), location)

\* self.scaler.transform(X): raises unless X has the columns the scaler was
\* fitted on (their number, and with scikit-learn 1.2 or later their names).
scaler_transform(sc, X) ==
    [ok |-> X.columns = sc.feature_names_in_,
     values |-> [X.values EXCEPT ![3] = @ - sc.mean_]]

\* self.model.predict(X_scaled)[0]
model_predict(m, X) == m.intercept + m.slope * X[3]

\* A mutant of ExpectedSales: the target is not multiplied by the ratio.
ExpectedSalesTargetOnly(sales_target, performance_ratio) ==
    IF ~IsNone(sales_target) /\ Value(sales_target) # 0
    THEN Value(sales_target) * RatioDen
    ELSE 0

\* expected_sales = sales_target * performance_ratio if sales_target else 0
ExpectedSales(sales_target, performance_ratio) ==
    IF ~IsNone(sales_target) /\ Value(sales_target) # 0
    THEN Value(sales_target) * performance_ratio
    ELSE 0

\* predict_location up to the construction of the PredictionResponse: ok is
\* FALSE when the scaler, the model or the construction raises, which the
\* handler turns into ValueError("Failed to make prediction: ...").  The
\* fields after the raising step are the values the step would have given.
predict_location(m, sc, df, table, location) ==
    LET X == store_location_to_features(df, location)
        X_scaled == scaler_transform(sc, X)
        performance_ratio == model_predict(m, X_scaled.values)
        sales_target == get_sales_target_for_environment(table, location.entorno)
        expected_sales == ExpectedSales(sales_target, performance_ratio)
        probability == _calculate_success_probability(performance_ratio)
        score == ComputeScore(performance_ratio)
        recommendation == _generate_recommendation(score, expected_sales, probability, location)
    IN  [ok |-> /\ X_scaled.ok
                /\ Len(X_scaled.values) = m.n_features_in_
                /\ PredictionResponseValid(score, expected_sales, probability),
         X |-> X,
         performance_ratio |-> performance_ratio,
         sales_target |-> sales_target,
         score |-> score,
         expectedSales |-> expected_sales,
         probability |-> probability,
         recommendation |-> recommendation]

\* save_prediction_log: one file per call, named by the second of the call;
\* a failed write is logged and swallowed.
save_prediction_log(files, now, written) == IF written THEN files \cup {now} ELSE files

\* A variant of PredictLocationReturns: a failed write of the log record
\* fails the call.
PredictLocationReturnsIfLogged(p, written) == p.ok /\ written

\* Whether predict_location returns its response: every step up to the
\* response has succeeded; save_prediction_log catches its own exceptions,
\* so the outcome of the write does not count.
PredictLocationReturns(p, written) == p.ok

(***************************************************************************)
(* get_stores_in_area.  The haversine distance is taken in its small-angle *)
(* form, R * sqrt(dlat^2 + cos(lat)^2 * dlon^2), with R * pi / 180 =       *)
(* 111.2 km per degree (KmPerTick100 hundredths of a km per tick) and      *)
(* cos(lat)^2 = CosSqNum / CosSqDen (latitude 26.5 N).                     *)
(***************************************************************************)
KmPerTick100 == 1112
CosSqNum == 4
CosSqDen == 5

\* CosSqDen * (2 * distance in ticks)^2 of a row from the centre (lat2, lng2),
\* the centre given in half ticks.
DistanceKey(row, lat2, lng2) ==
    LET dlat == 2 * row.latitud - lat2
        dlon == 2 * row.longitud - lng2
    IN  CosSqDen * dlat * dlat + CosSqNum * dlon * dlon

\* distance_km <= radius_km, the radius in 1/200 km.  Keys above 1700 are
\* more than 100 km away and are not multiplied out (32-bit arithmetic);
\* every radius of the model is below 100 km.
WithinRadius(key, radius200) ==
    /\ key <= 1700
    /\ KmPerTick100 * KmPerTick100 * key <= CosSqDen * radius200 * radius200

\* sort_values('distance_km'): every order of the rows by non-decreasing
\* distance; the sort is not a stable one, so rows at the same distance may
\* come in either order.
RECURSIVE SortedByDistance(_, _)
SortedByDistance(S, key) ==
    IF S = {} THEN {<<>>}
    ELSE LET nearest == {i \in S : \A j \in S : key[i] <= key[j]}
         IN  UNION { { <<i>> \o rest : rest \in SortedByDistance(S \ {i}, key) } :
                     i \in nearest }

\* A variant of KeptByAreaSearch: the filter by distance is applied to the
\* stored frame itself.
FilteredByAreaSearch(df, lat2, lng2, radius200) ==
    SelectSeq(df, LAMBDA row : WithinRadius(DistanceKey(row, lat2, lng2), radius200))

\* A stored frame (self._stores_df, self._test_stores_df) after a call of
\* get_stores_in_area: pd.concat builds a new frame, and the distance
\* columns, the filter, the sort and the drop are all applied to that one;
\* the stored frame keeps its rows.
KeptByAreaSearch(df, lat2, lng2, radius200) == df

\* A mutant of get_stores_in_area: only the training stores are searched.
get_stores_in_area_training_only(train, test, lat2, lng2, radius200) ==
    LET all_stores_df == train
        key == [i \in 1..Len(all_stores_df) |-> DistanceKey(all_stores_df[i], lat2, lng2)]
        nearby == {i \in 1..Len(all_stores_df) : WithinRadius(key[i], radius200)}
    IN  IF \E i \in nearby : ~StoreLocationValid(all_stores_df[i])
        THEN {<<>>}
        ELSE { [k \in 1..Len(order) |-> all_stores_df[order[k]]] :
               order \in SortedByDistance(nearby, key) }

\* The lists get_stores_in_area may return: the rows of both datasets within
\* the radius, nearest first, each built into a StoreLocation; any exception
\* (a row that fails validation) is logged and gives the empty list.
get_stores_in_area(train, test, lat2, lng2, radius200) ==
    LET all_stores_df == train \o test
        key == [i \in 1..Len(all_stores_df) |-> DistanceKey(all_stores_df[i], lat2, lng2)]
        nearby == {i \in 1..Len(all_stores_df) : WithinRadius(key[i], radius200)}
    IN  IF \E i \in nearby : ~StoreLocationValid(all_stores_df[i])
        THEN {<<>>}
        ELSE { [k \in 1..Len(order) |-> all_stores_df[order[k]]] :
               order \in SortedByDistance(nearby, key) }

(***************************************************************************)
(* The Area Aggregator.                                                    *)
(***************************************************************************)

\* The predictions of a list of stores, in order.
Predictions(m, sc, df, table, stores) ==
    [k \in 1..Len(stores) |-> predict_location(m, sc, df, table, stores[k])]

\* How many predictions of the loop returned before the first one raised.
Predicted(preds) ==
    IF \A k \in 1..Len(preds) : preds[k].ok THEN Len(preds)
    ELSE (CHOOSE k \in 1..Len(preds) : ~preds[k].ok /\ \A j \in 1..(k - 1) : preds[j].ok) - 1

\* A mutant of SortByScoreDescending: an unstable sort, equal scores reversed.
RECURSIVE SortByScoreDescendingUnstable(_)
SortByScoreDescendingUnstable(store_scores) ==
    IF store_scores = <<>> THEN <<>>
    ELSE LET head == store_scores[1]
             rest == SortByScoreDescendingUnstable(Tail(store_scores))
             before == SelectSeq(rest, LAMBDA x : x[2] >= head[2])
             after == SelectSeq(rest, LAMBDA x : x[2] < head[2])
         IN  before \o <<head>> \o after

\* store_scores.sort(key=lambda x: x[1], reverse=True): a stable sort, pairs
\* of equal score keep their order.
RECURSIVE SortByScoreDescending(_)
SortByScoreDescending(store_scores) ==
    IF store_scores = <<>> THEN <<>>
    ELSE LET head == store_scores[1]
             rest == SortByScoreDescending(Tail(store_scores))
             before == SelectSeq(rest, LAMBDA x : x[2] > head[2])
             after == SelectSeq(rest, LAMBDA x : x[2] <= head[2])
         IN  before \o <<head>> \o after

\* [store for store, _ in store_scores[:5]]
TopStores(store_scores) ==
    LET top == SubSeq(store_scores, 1, Min(TopN, Len(store_scores)))
    IN  [k \in 1..Len(top) |-> top[k][1]]

\* store_scores as the loop of get_optimal_locations appends to it.
StoreScores(existing_stores, preds) ==
    [k \in 1..Len(existing_stores) |-> <<existing_stores[k], preds[k].score>>]

\* The body of get_optimal_locations once every prediction has returned.
RankStores(existing_stores, preds) ==
    TopStores(SortByScoreDescending(StoreScores(existing_stores, preds)))

\* np.random.uniform(0.3, 0.9): the generator is a stream of numbers fixed by
\* its hidden state; here a linear congruential one, the draw mapped onto
\* the ScoreDen-ths between the two limits.
NextRandom(x) == (5 * x + 3) % 64

UniformScore(x) ==
    LET low == (GridLowTenths * ScoreDen) \div 10
        high == (GridHighTenths * ScoreDen) \div 10
    IN  low + (x % (high - low + 1))

\* MapPoint: lat in 1/(2*n_lat) ticks, lng in 1/(2*n_lng) ticks.
MapPoint(id, lat, lng, score, color) ==
    [id |-> id, lat |-> lat, lng |-> lng, score |-> score, color |-> color]

\* A mutant of GridPoint: the point sits on the cell's south-west corner.
GridPointAtCorner(bounds, i, j, x) ==
    MapPoint("grid_" \o ToString(i) \o "_" \o ToString(j),
             2 * n_lat * bounds.south + (2 * i) * (bounds.north - bounds.south),
             2 * n_lng * bounds.west + (2 * j) * (bounds.east - bounds.west),
             UniformScore(x), _get_color_for_score(UniformScore(x)))

\* The point of cell (i, j): lat = south + (i + 0.5) * lat_step,
\* lng = west + (j + 0.5) * lng_step.
GridPoint(bounds, i, j, x) ==
    MapPoint("grid_" \o ToString(i) \o "_" \o ToString(j),
             2 * n_lat * bounds.south + (2 * i + 1) * (bounds.north - bounds.south),
             2 * n_lng * bounds.west + (2 * j + 1) * (bounds.east - bounds.west),
             UniformScore(x), _get_color_for_score(UniformScore(x)))

\* The generator n draws after state x.
RECURSIVE RandomAfter(_, _)
RandomAfter(x, n) == IF n = 0 THEN x ELSE RandomAfter(NextRandom(x), n - 1)

\* The points from cell k, the first of a row, on: the cells of the row,
\* one draw each, then the rows after it.
RECURSIVE GridFrom(_, _, _)
GridFrom(bounds, k, x) ==
    IF k = n_lat * n_lng THEN <<>>
    ELSE [j \in 1..n_lng |-> GridPoint(bounds, k \div n_lng, j - 1, RandomAfter(x, j - 1))]
            \o GridFrom(bounds, k + n_lng, RandomAfter(x, n_lng))

\* _generate_grid_points, the generator in state seed.
_generate_grid_points(bounds, seed) == GridFrom(bounds, 0, NextRandom(seed))

\* id=f"store_{store.tiendaId or i}"
StorePointId(store, i) ==
    "store_" \o ToString(IF ~IsNone(store.tiendaId) /\ Value(store.tiendaId) # 0
                         THEN Value(store.tiendaId) ELSE i)

\* The points generate_heatmap builds from the stores it found.
StorePoints(existing_stores, preds) ==
    [k \in 1..Len(existing_stores) |->
        MapPoint(StorePointId(existing_stores[k], k - 1),
                 2 * n_lat * existing_stores[k].latitud,
                 2 * n_lng * existing_stores[k].longitud,
                 preds[k].score,
                 _get_color_for_score(preds[k].score))]

\* radius_km = max(lat_radius, lng_radius) * 1.5, in 1/200 km.
HeatmapRadius(bounds) ==
    (Max(bounds.north - bounds.south, bounds.east - bounds.west)
        * KmPerDegree * 10 * MarginTenths) \div 10

(***************************************************************************)
(* The sales forecast of analyze_location.  Amounts are in                 *)
(* SalesUnit / (RatioDen * 100 * 1000) pesos: the base in SalesUnit /      *)
(* RatioDen pesos (every Meta_venta of the model is a whole number of      *)
(* SalesUnit pesos), the seasonal factor in hundredths, 1 + noise in       *)
(* thousandths.                                                            *)
(***************************************************************************)
SalesUnit == 10000

\* seasonal_factors, in hundredths, January first.
seasonal_factors == <<85, 90, 95, 100, 105, 110, 115, 110, 105, 100, 110, 120>>

\* np.random.uniform(-0.05, 0.05) in thousandths: the draw x of the
\* generator (one of 64) mapped onto -0.050 .. 0.048.
UniformNoise(x) == ((x * 100) \div 64) - 50

\* str(n) of a non-negative integer, as its decimal digits.
RECURSIVE FormatInt(_)
FormatInt(n) == IF n < 10 THEN <<n>> ELSE FormatInt(n \div 10) \o <<n % 10>>

\* f"{month:02d}"
FormatMonth(month) == IF month < 10 THEN <<0, month>> ELSE FormatInt(month)

\* SalesForecast(month=..., amount=...): the pattern ^\d{6}$ and ge=0.
SalesForecastValid(entry) ==
    /\ Len(entry.month) = 6
    /\ \A k \in 1..Len(entry.month) : entry.month[k] \in 0..9
    /\ entry.amount >= 0

\* A variant of ForecastEntry: the year turns with the month after
\* November.
ForecastEntryYearTurnsEarly(base_sales, current_month, current_year, i, x) ==
    LET month0 == (current_month + i) % 12
        month == IF month0 = 0 THEN 12 ELSE month0
        year == current_year + (current_month + i) \div 12
    IN  [month |-> FormatInt(year) \o FormatMonth(month),
         amount |-> (base_sales \div SalesUnit) * seasonal_factors[month]
                        * (1000 + UniformNoise(x))]

\* A variant of ForecastEntry: the noise is subtracted from the seasonal
\* amount as a share of twenty times the amount.
ForecastEntryWideNoise(base_sales, current_month, current_year, i, x) ==
    LET month0 == (current_month + i) % 12
        month == IF month0 = 0 THEN 12 ELSE month0
        year == current_year + (current_month + i - 1) \div 12
    IN  [month |-> FormatInt(year) \o FormatMonth(month),
         amount |-> (base_sales \div SalesUnit) * seasonal_factors[month]
                        * (1000 + 20 * UniformNoise(x))]

\* The body of the loop of _generate_sales_forecast for i, the generator
\* giving x.
ForecastEntry(base_sales, current_month, current_year, i, x) ==
    LET month0 == (current_month + i) % 12
        month == IF month0 = 0 THEN 12 ELSE month0
        year == current_year + (current_month + i - 1) \div 12
    IN  [month |-> FormatInt(year) \o FormatMonth(month),
         amount |-> (base_sales \div SalesUnit) * seasonal_factors[month]
                        * (1000 + UniformNoise(x))]

RECURSIVE ForecastFrom(_, _, _, _, _)
ForecastFrom(base_sales, current_month, current_year, i, x) ==
    IF i = ForecastMonths THEN <<>>
    ELSE <<ForecastEntry(base_sales, current_month, current_year, i, x)>>
            \o ForecastFrom(base_sales, current_month, current_year, i + 1, NextRandom(x))

\* _generate_sales_forecast on the date (current_month, current_year), the
\* generator in state seed.
_generate_sales_forecast(base_sales, current_month, current_year, seed) ==
    ForecastFrom(base_sales, current_month, current_year, 0, NextRandom(seed))

NoResponse == [op |-> "none"]

\* The locations clients ask about (validated StoreLocations without an id).
RequestLocations ==
    { Row(None, 257, 0 - 1002, "Base", d) : d \in 0..MaxDoors }
        \cup { Row(None, 257, 0 - 1002, "Hogar", d) : d \in {0, 12, MaxDoors} }
        \cup { CatRow(None, "A", "Peatonal", "Oficinistas"),
               CatRow(None, "D", "Receso", "Barrio Competido") }

\* AreaRequest: a centre in half ticks and a radius in km (0 < radius <= 50).
\* A request body: the example record of the model with one field changed.
Body(field, value) == [Row(None, 257, 0 - 1002, "Hogar", 12) EXCEPT ![field] = value]

\* Bodies at and beyond each limit of StoreLocation, and with a category
\* outside each enumeration.
LimitBodies ==
    {Body("latitud", v) : v \in {139, 140, 330, 331}}
        \cup {Body("longitud", v) : v \in {0 - 1186, 0 - 1185, 0 - 865, 0 - 864}}
        \cup {Body("plazaCve", v) : v \in {0, 1}}
        \cup {Body("mts2Ventas", v) : v \in {0, 1}}
        \cup {Body("puertasRefrig", v) : v \in {0 - 1, 0}}
        \cup {Body("cajonesEstacionamiento", v) : v \in {0 - 1, 0}}
        \cup {Body("nivelSocioeconomico", v) : v \in {"E", "D"}}
        \cup {Body("entorno", v) : v \in {"Mall", "Receso"}}
        \cup {Body("segmentoMaestro", v) : v \in {"Premium", "Parada Tecnica"}}

RequestBodies == RequestLocations \cup LimitBodies

\* The bodies posted to /analyze-location: locations at the coordinates of a
\* store, with few and with many doors, and one body that fails validation.
AnalysisBodies ==
    { Row(None, 257, 0 - 1002, "Base", d) : d \in {0, 12, MaxDoors} }
        \cup { Row(None, 257, 0 - 1002, "Hogar", 12), CatRow(None, "A", "Peatonal", "Oficinistas"),
               Body("latitud", 139) }

\* The years in which datetime.now() falls.
Years == {2026, 2027}

AreaReq(lat2, lng2, radius) == [lat2 |-> lat2, lng2 |-> lng2, radius |-> radius]

RequestAreas ==
    { AreaReq(514, 0 - 2004, 5), AreaReq(514, 0 - 2004, 12), AreaReq(514, 0 - 2004, 30),
      AreaReq(500, 0 - 2020, 5) }

\* MapBounds: north > south and east > west.
Bounds(south, north, west, east) ==
    [south |-> south, north |-> north, west |-> west, east |-> east]

RequestBounds ==
    { Bounds(256, 258, 0 - 1003, 0 - 1001),
      Bounds(257, 258, 0 - 1003, 0 - 1001),
      Bounds(258, 259, 0 - 1004, 0 - 1000),
      Bounds(250, 252, 0 - 1010, 0 - 1007) }

\* Venta.csv of the catalog: one month of sales per store.
CatalogSales == [i \in 1..Len(Catalog) |-> SaleRow(Value(Catalog[i].tiendaId), 400000)]

\* A running service: the data loaded, the PredictionService constructed
\* from a persisted pair that was fitted on data with the columns of the
\* loaded data.
Init ==
    /\ stores_df = SubSeq(Catalog, 1, MaxTrain)
    /\ \E nTest \in {0, MaxTest} :
          test_stores_df = SubSeq(Catalog, MaxTrain + 1, MaxTrain + nTest)
    /\ sales_df = CatalogSales
    /\ sales_target_df \in TargetTables
    /\ combined_df = _create_combined_dataset(stores_df, sales_df, sales_target_df)
    /\ \E fit \in Fits(combined_df) :
          /\ model = fit.model
          /\ scaler = fit.scaler
          /\ model_file = Some(joblib_dump(fit.model))
          /\ scaler_file = Some(joblib_dump(fit.scaler))
    /\ service = "constructed"
    /\ clock = 0
    /\ logFiles = {}
    /\ store_cache = <<>>
    /\ response = NoResponse

(***************************************************************************)
(* Start-up: the data files and the model files found by a starting        *)
(* process.                                                                *)
(***************************************************************************)

\* DIM_TIENDA.csv as a process may find it: two files with the same
\* categories in different rows, one without the first category of any
\* enumeration, one with every category, one with an entorno outside the
\* enumeration.
TrainingSets ==
    { << CatRow(Some(1), "C", "Base", "Clasico"), CatRow(Some(2), "C", "Hogar", "Clasico") >>,
      << CatRow(Some(3), "C", "Hogar", "Clasico"), CatRow(Some(1), "C", "Base", "Clasico"),
         CatRow(Some(4), "C", "Base", "Clasico") >>,
      << CatRow(Some(1), "AB", "Hogar", "Clasico"),
         CatRow(Some(2), "C", "Peatonal", "Oficinistas") >>,
      << CatRow(Some(1), "A", "Base", "Barrio Competido"),
         CatRow(Some(2), "AB", "Hogar", "Clasico"),
         CatRow(Some(3), "B", "Peatonal", "Hogar Reunion"),
         CatRow(Some(4), "BC", "Receso", "Oficinistas"),
         CatRow(Some(5), "C", "Base", "Parada Tecnica"),
         CatRow(Some(6), "CD", "Hogar", "Clasico"),
         CatRow(Some(7), "D", "Base", "Clasico") >>,
      << CatRow(Some(1), "C", "Base", "Clasico"), CatRow(Some(2), "C", "Mall", "Clasico") >> }

\* Venta.csv: one month of sales for each store id.
StartupSales == [i \in 1..7 |-> SaleRow(i, 400000)]

\* Meta_venta.csv with a target for every entorno of the store files, and
\* with a target for Base alone.
StartupTargets ==
    { << TargetRow("Base", 480000), TargetRow("Hogar", 520000),
         TargetRow("Peatonal", 420000), TargetRow("Receso", 450000),
         TargetRow("Mall", 400000) >>,
      << TargetRow("Base", 480000) >> }

\* load_data on the files a starting process finds.
load_data(stores, targets) ==
    [stores_df |-> stores, test_stores_df |-> <<>>, sales_df |-> StartupSales,
     sales_target_df |-> targets,
     combined_df |-> _create_combined_dataset(stores, StartupSales, targets)]

\* The store file an earlier deployment trained on: the first two stores.
EarlierStores ==
    << CatRow(Some(1), "C", "Base", "Clasico"), CatRow(Some(2), "C", "Hogar", "Clasico") >>

\* feature_scaler.pkl as a training run on the earlier store file wrote it.
EarlierScalerFile ==
    joblib_dump(CHOOSE sc \in FittedScalers(get_training_data(
                    _create_combined_dataset(EarlierStores, StartupSales,
                                             << TargetRow("Base", 480000),
                                                TargetRow("Hogar", 520000) >>))) : TRUE)

\* The model directory a starting process may find: empty; a model file
\* that cannot be loaded; the scaler file of an earlier training run whose
\* model file is gone.
ModelDirectories ==
    { [model_file |-> None, scaler_file |-> None],
      [model_file |-> Some(CorruptFile), scaler_file |-> None],
      [model_file |-> None, scaler_file |-> Some(EarlierScalerFile)] }

\* The process starts: DataService() loads the files it finds; no
\* PredictionService exists yet.
StartupInit ==
    /\ \E stores \in TrainingSets, targets \in StartupTargets :
          LET data == load_data(stores, targets)
          IN  /\ stores_df = data.stores_df
              /\ test_stores_df = data.test_stores_df
              /\ sales_df = data.sales_df
              /\ sales_target_df = data.sales_target_df
              /\ combined_df = data.combined_df
    /\ model = None
    /\ scaler = None
    /\ \E found \in ModelDirectories :
          /\ model_file = found.model_file
          /\ scaler_file = found.scaler_file
    /\ service = "absent"
    /\ clock = 0
    /\ logFiles = {}
    /\ store_cache = <<>>
    /\ response = NoResponse

\* PredictionService(data_service): __init__ runs _load_or_train_model; when
\* that raises, no object comes to exist.
Construct ==
    /\ service = "absent"
    /\ \E fit \in StartupFits(combined_df), saved \in 0..2 :
          LET files == [model_file |-> model_file, scaler_file |-> scaler_file]
              made == _load_or_train_model(combined_df, files, fit, saved)
          IN  /\ service' = IF made.raised THEN "absent" ELSE "constructed"
              /\ model' = IF made.raised THEN None ELSE made.model
              /\ scaler' = IF made.raised THEN None ELSE made.scaler
              /\ model_file' = made.model_file
              /\ scaler_file' = made.scaler_file
    /\ UNCHANGED <<dataVars, store_cache, clock, logFiles, response>>

\* The process ends and a new one starts: the objects are gone, the files
\* stay, and the new DataService loads the data files it finds.
Restart ==
    /\ response = NoResponse
    /\ \E stores \in TrainingSets, targets \in StartupTargets :
          LET data == load_data(stores, targets)
          IN  /\ stores_df' = data.stores_df
              /\ test_stores_df' = data.test_stores_df
              /\ sales_df' = data.sales_df
              /\ sales_target_df' = data.sales_target_df
              /\ combined_df' = data.combined_df
    /\ model' = None
    /\ scaler' = None
    /\ service' = "absent"
    /\ store_cache' = <<>>
    /\ UNCHANGED <<model_file, scaler_file, clock, logFiles, response>>

\* The estimators and files a request leaves behind: those EnsureFitted gave.
Fitted(fitted) ==
    /\ model' = fitted.model
    /\ scaler' = fitted.scaler
    /\ model_file' = fitted.model_file
    /\ scaler_file' = fitted.scaler_file
    /\ service' = service

Files == [model_file |-> model_file, scaler_file |-> scaler_file]

\* What the predict_location calls of a loop over stores leave behind: the
\* first call fits if need be; no call, nothing.
FittedFor(stores, fit, saved) ==
    IF stores = <<>>
    THEN [raised |-> FALSE, model |-> model, scaler |-> scaler,
          model_file |-> model_file, scaler_file |-> scaler_file]
    ELSE EnsureFitted(model, scaler, combined_df, Files, fit, saved)

\* The loaded frames after get_stores_in_area(lat, lng, radius_km).
AreaSearched(lat2, lng2, radius200) ==
    /\ stores_df' = KeptByAreaSearch(stores_df, lat2, lng2, radius200)
    /\ test_stores_df' = KeptByAreaSearch(test_stores_df, lat2, lng2, radius200)
    /\ UNCHANGED <<sales_df, sales_target_df, combined_df>>

\* POST /predict-location: the body is built into a StoreLocation first, and
\* a body that fails validation is rejected before the handler runs.
PredictLocation ==
    /\ service = "constructed"
    /\ response = NoResponse
    /\ \E body \in RequestBodies :
          IF ~StoreLocationValid(body)
          THEN /\ response' = [op |-> "rejected", location |-> body, ok |-> FALSE]
               /\ UNCHANGED <<modelVars, logFiles>>
          ELSE \E fit \in StartupFits(combined_df), saved \in SavedChoices(model, scaler) :
               \E location \in {body} :
               \E fitted \in {EnsureFitted(model, scaler, combined_df, Files, fit, saved)} :
               \E p \in {IF fitted.raised THEN [ok |-> FALSE]
                         ELSE predict_location(fitted.model, fitted.scaler, combined_df,
                                               sales_target_df, location)} :
                   /\ Fitted(fitted)
                   /\ \E written \in BOOLEAN :
                          /\ response' = [op |-> "predict_location", location |-> location,
                                          ok |-> PredictLocationReturns(p, written),
                                          prediction |-> p,
                                          logged |-> IF p.ok /\ written THEN 1 ELSE 0]
                          /\ logFiles' = IF p.ok
                                         THEN save_prediction_log(logFiles, clock, written)
                                         ELSE logFiles
    /\ UNCHANGED <<dataVars, store_cache, clock>>

\* POST /optimal-locations
GetOptimalLocations ==
    /\ service = "constructed"
    /\ response = NoResponse
    /\ \E area \in RequestAreas :
       \E existing_stores \in get_stores_in_area(stores_df, test_stores_df,
                                                 area.lat2, area.lng2, 200 * area.radius) :
       \E fit \in StartupFits(combined_df), saved \in SavedChoices(model, scaler) :
       \E fitted \in {FittedFor(existing_stores, fit, saved)} :
       \E preds \in {IF fitted.raised THEN <<>>
                     ELSE Predictions(fitted.model, fitted.scaler, combined_df,
                                      sales_target_df, existing_stores)} :
          LET ok == ~fitted.raised /\ \A k \in 1..Len(preds) : preds[k].ok
          IN  /\ Fitted(fitted)
              /\ AreaSearched(area.lat2, area.lng2, 200 * area.radius)
              /\ \E written \in IF Predicted(preds) > 0 THEN BOOLEAN ELSE {FALSE} :
                    /\ response' = [op |-> "get_optimal_locations", area |-> area,
                                    existing_stores |-> existing_stores, ok |-> ok,
                                    store_scores |-> IF fitted.raised THEN <<>>
                                                     ELSE StoreScores(existing_stores, preds),
                                    result |-> IF ok THEN RankStores(existing_stores, preds)
                                               ELSE <<>>,
                                    logged |-> IF written THEN Predicted(preds) ELSE 0]
                    /\ logFiles' = save_prediction_log(logFiles, clock, written)
    /\ UNCHANGED <<store_cache, clock>>

\* POST /generate-heatmap
GenerateHeatmap ==
    /\ service = "constructed"
    /\ response = NoResponse
    /\ \E bounds \in RequestBounds :
       \E existing_stores \in get_stores_in_area(stores_df, test_stores_df,
                                                 bounds.north + bounds.south,
                                                 bounds.east + bounds.west,
                                                 HeatmapRadius(bounds)) :
        /\ IF existing_stores = <<>>
          THEN /\ UNCHANGED modelVars
               /\ \E seed \in 0..MaxSeed :
                     response' = [op |-> "generate_heatmap", bounds |-> bounds,
                                  existing_stores |-> existing_stores, ok |-> TRUE,
                                  points |-> _generate_grid_points(bounds, seed),
                                  centerLat2 |-> bounds.north + bounds.south,
                                  centerLng2 |-> bounds.east + bounds.west]
               /\ logFiles' = logFiles
          ELSE \E fit \in StartupFits(combined_df), saved \in SavedChoices(model, scaler) :
               \E fitted \in {FittedFor(existing_stores, fit, saved)} :
               \E preds \in {IF fitted.raised THEN <<>>
                             ELSE Predictions(fitted.model, fitted.scaler, combined_df,
                                              sales_target_df, existing_stores)} :
               LET ok == ~fitted.raised /\ \A k \in 1..Len(preds) : preds[k].ok
               IN  /\ Fitted(fitted)
                   /\ \E written \in IF Predicted(preds) > 0 THEN BOOLEAN ELSE {FALSE} :
                         /\ response' = [op |-> "generate_heatmap", bounds |-> bounds,
                                         existing_stores |-> existing_stores, ok |-> ok,
                                         points |-> IF ok THEN StorePoints(existing_stores, preds)
                                                    ELSE <<>>,
                                         centerLat2 |-> bounds.north + bounds.south,
                                         centerLng2 |-> bounds.east + bounds.west,
                                         logged |-> IF written THEN Predicted(preds) ELSE 0]
                         /\ logFiles' = save_prediction_log(logFiles, clock, written)
        /\ AreaSearched(bounds.north + bounds.south, bounds.east + bounds.west,
                        HeatmapRadius(bounds))
    /\ UNCHANGED <<store_cache, clock>>

\* POST /analyze-location: predict_location, the stores within 2 km, the
\* forecast from the date of the call, and the LocationAnalysisResult.
AnalyzeLocation ==
    /\ service = "constructed"
    /\ response = NoResponse
    /\ \E body \in AnalysisBodies :
          IF ~StoreLocationValid(body)
          THEN /\ response' = [op |-> "rejected", location |-> body, ok |-> FALSE]
               /\ UNCHANGED <<dataVars, modelVars, logFiles>>
          ELSE \E fit \in StartupFits(combined_df), saved \in SavedChoices(model, scaler) :
               \E location \in {body} :
               \E fitted \in {EnsureFitted(model, scaler, combined_df, Files, fit, saved)} :
               \E p \in {IF fitted.raised THEN [ok |-> FALSE]
                         ELSE predict_location(fitted.model, fitted.scaler, combined_df,
                                               sales_target_df, location)} :
               /\ Fitted(fitted)
               /\ IF ~p.ok
                  THEN /\ response' = [op |-> "analyze_location", location |-> location,
                                       ok |-> FALSE, prediction |-> p, logged |-> 0]
                       /\ logFiles' = logFiles
                       /\ UNCHANGED dataVars
                  ELSE \E nearby_stores \in get_stores_in_area(stores_df, test_stores_df,
                                                               2 * location.latitud,
                                                               2 * location.longitud,
                                                               200 * NearbyRadiusKm) :
                       \E current_month \in 1..12, current_year \in Years,
                          seed \in 0..MaxSeed :
                       \E sales_forecast \in {_generate_sales_forecast(p.expectedSales,
                                                  current_month, current_year, seed)} :
                       \E written \in BOOLEAN :
                          /\ response' =
                                [op |-> "analyze_location", location |-> location,
                                 ok |-> /\ PredictLocationReturns(p, written)
                                        /\ \A k \in 1..Len(sales_forecast) :
                                               SalesForecastValid(sales_forecast[k]),
                                 prediction |-> p,
                                 nearbyStores |-> IF nearby_stores = <<>> THEN None
                                                  ELSE Some(nearby_stores),
                                 current_month |-> current_month,
                                 current_year |-> current_year,
                                 salesForecast |-> sales_forecast,
                                 logged |-> IF written THEN 1 ELSE 0]
                          /\ logFiles' = save_prediction_log(logFiles, clock, written)
                          /\ AreaSearched(2 * location.latitud, 2 * location.longitud,
                                          200 * NearbyRadiusKm)
    /\ UNCHANGED <<store_cache, clock>>

\* The route handler returns the result (or HTTP 500) to the client.
Deliver ==
    /\ response # NoResponse
    /\ response' = NoResponse
    /\ UNCHANGED <<dataVars, store_cache, modelVars, clock, logFiles>>

\* A second passes.
Tick ==
    /\ clock < MaxClock
    /\ clock' = clock + 1
    /\ UNCHANGED <<dataVars, store_cache, modelVars, logFiles, response>>

Next == PredictLocation \/ GetOptimalLocations \/ GenerateHeatmap \/ Deliver \/ Tick

Spec == Init /\ [][Next]_vars

StartupNext == Construct \/ Restart \/ PredictLocation \/ GenerateHeatmap \/ Deliver

StartupSpec == StartupInit /\ [][StartupNext]_vars

(***************************************************************************)
(* The analysis requests of a running service.                             *)
(***************************************************************************)

\* A running service that has loaded both store files.
AnalysisInit == Init /\ Len(test_stores_df) = MaxTest

AnalysisNext == AnalyzeLocation \/ Deliver

AnalysisSpec == AnalysisInit /\ [][AnalysisNext]_vars

(***************************************************************************)
(* The store lookup and a second load_data of the same DataService.        *)
(***************************************************************************)

\* The ids looked up.
LookupIds == {1, 2, 3, 4}

\* DIM_TIENDA.csv and DIM_TIENDA_TEST.csv as load_data may find them: store
\* 1 in both files, store 2 with an entorno outside the enumeration, store 3
\* in the test file only; the files after an edit (store 1 changed, store 2
\* corrected and moved to the test file, store 3 gone); and the first pair
\* with store 2 corrected.
LookupFiles ==
    { [train |-> << CatRow(Some(1), "C", "Base", "Clasico"),
                    CatRow(Some(2), "C", "Mall", "Clasico") >>,
       test |-> << CatRow(Some(3), "B", "Hogar", "Clasico"),
                   CatRow(Some(1), "AB", "Hogar", "Oficinistas") >>],
      [train |-> << CatRow(Some(1), "D", "Receso", "Clasico") >>,
       test |-> << CatRow(Some(2), "C", "Hogar", "Clasico") >>],
      [train |-> << CatRow(Some(1), "C", "Base", "Clasico"),
                    CatRow(Some(2), "C", "Hogar", "Clasico") >>,
       test |-> << CatRow(Some(3), "B", "Hogar", "Clasico"),
                   CatRow(Some(1), "AB", "Hogar", "Oficinistas") >>] }

LookupTargets == << TargetRow("Base", 480000), TargetRow("Hogar", 520000) >>

\* DataService(): the files are loaded, nothing is cached.
LookupInit ==
    /\ \E files \in LookupFiles :
          /\ stores_df = files.train
          /\ test_stores_df = files.test
          /\ combined_df = _create_combined_dataset(files.train, StartupSales, LookupTargets)
    /\ sales_df = StartupSales
    /\ sales_target_df = LookupTargets
    /\ model = None
    /\ scaler = None
    /\ model_file = None
    /\ scaler_file = None
    /\ service = "absent"
    /\ clock = 0
    /\ logFiles = {}
    /\ store_cache = <<>>
    /\ response = NoResponse

\* data_service.load_data() on the DataService that exists: the four frames
\* and the combined dataset are replaced by those of the files found now.
LoadData ==
    /\ response = NoResponse
    /\ \E files \in LookupFiles :
          /\ stores_df' = files.train
          /\ test_stores_df' = files.test
          /\ combined_df' = _create_combined_dataset(files.train, StartupSales, LookupTargets)
    /\ sales_df' = StartupSales
    /\ sales_target_df' = LookupTargets
    /\ UNCHANGED <<modelVars, clock, logFiles, store_cache, response>>

\* data_service.get_store_by_id(store_id)
GetStoreById ==
    /\ response = NoResponse
    /\ \E store_id \in LookupIds :
       \E found \in {get_store_by_id(stores_df, test_stores_df, store_id)} :
          /\ response' = [op |-> "get_store_by_id", store_id |-> store_id, ok |-> TRUE,
                          result |-> lru_cache_call(store_cache, store_id, found)]
          /\ store_cache' = lru_cache_put(store_cache, store_id, found)
    /\ UNCHANGED <<dataVars, modelVars, clock, logFiles>>

LookupNext == GetStoreById \/ LoadData \/ Deliver

LookupSpec == LookupInit /\ [][LookupNext]_vars

(***************************************************************************)
(* Every kind of request on one running service.                           *)
(***************************************************************************)
RequestNext ==
    \/ PredictLocation
    \/ AnalyzeLocation
    \/ GetOptimalLocations
    \/ GenerateHeatmap
    \/ GetStoreById
    \/ Deliver

\* A running service that has loaded both store files and a target for the
\* two environments of its stores, its regressor without a constant term.
RequestInit == AnalysisInit /\ Len(sales_target_df) = 2 /\ model.intercept = 0

RequestSpec == RequestInit /\ [][RequestNext]_vars

(***************************************************************************)
(* Heatmaps over store files whose ids are 0 or shared between the files.  *)
(***************************************************************************)

\* DIM_TIENDA.csv and DIM_TIENDA_TEST.csv: a store with tiendaId 0 next to
\* store 1; store 1 in both files (drop_duplicates works on each file by
\* itself); and three stores with ids of their own.
HeatmapFiles ==
    { [train |-> << Row(Some(1), 257, 0 - 1002, "Base", 12),
                    Row(Some(0), 257, 0 - 1001, "Hogar", 20) >>,
       test |-> <<>>],
      [train |-> << Row(Some(1), 257, 0 - 1002, "Base", 12) >>,
       test |-> << Row(Some(1), 257, 0 - 1001, "Base", 30) >>],
      [train |-> << Row(Some(1), 257, 0 - 1002, "Base", 12),
                    Row(Some(2), 257, 0 - 1001, "Hogar", 20) >>,
       test |-> << Row(Some(3), 258, 0 - 1002, "Base", 30) >>] }

\* A running service on these files.
HeatmapInit ==
    /\ \E files \in HeatmapFiles :
          /\ stores_df = files.train
          /\ test_stores_df = files.test
    /\ sales_df = StartupSales
    /\ sales_target_df = LookupTargets
    /\ combined_df = _create_combined_dataset(stores_df, sales_df, sales_target_df)
    /\ \E fit \in Fits(combined_df) :
          /\ model = fit.model
          /\ scaler = fit.scaler
          /\ model_file = Some(joblib_dump(fit.model))
          /\ scaler_file = Some(joblib_dump(fit.scaler))
    /\ service = "constructed"
    /\ clock = 0
    /\ logFiles = {}
    /\ store_cache = <<>>
    /\ response = NoResponse

HeatmapNext == GenerateHeatmap \/ Deliver

HeatmapSpec == HeatmapInit /\ [][HeatmapNext]_vars

(***************************************************************************)
(* Properties.                                                             *)
(***************************************************************************)
Predicting == response.op = "predict_location"
Ranking == response.op = "get_optimal_locations"
Mapping == response.op = "generate_heatmap"

\* The target configured for an environment: the first row of the table
\* with that ENTORNO_DES, if there is one.
Configured(entorno) == \E i \in 1..Len(sales_target_df) : sales_target_df[i].ENTORNO_DES = entorno
ConfiguredTarget(entorno) ==
    sales_target_df[CHOOSE i \in 1..Len(sales_target_df) :
                        /\ sales_target_df[i].ENTORNO_DES = entorno
                        /\ \A j \in 1..(i - 1) : sales_target_df[j].ENTORNO_DES # entorno].Meta_venta

\* C1: every PredictionResponse that predict_location returns has its score
\* in [0, 1], its probability in [0, 1] and expectedSales >= 0.
C1_ResponseInRange ==
    (Predicting /\ response.ok) =>
        /\ response.prediction.score >= 0
        /\ response.prediction.score <= ScoreDen
        /\ response.prediction.probability >= 0
        /\ response.prediction.probability <= FixOne
        /\ response.prediction.expectedSales >= 0

\* A response returned for a negative ratio.
C1_Witness ==
    /\ Predicting /\ response.ok
    /\ response.prediction.performance_ratio < 0

\* C2: the score is clamp(ratio / 1.5, 0, 1): 0 for every ratio <= 0, ratio / 1.5
\* and non-decreasing in the ratio on [0, 1.5] (never below the score of the
\* next lower ratio), exactly 1 for every ratio >= 1.5.
C2_ScoreIsClampedRatio ==
    Predicting =>
        LET r == response.prediction.performance_ratio
            sc == response.prediction.score
        IN  /\ r <= 0 => sc = 0
            /\ 2 * r >= 3 * RatioDen => sc = ScoreDen
            /\ (r >= 0 /\ 2 * r <= 3 * RatioDen) =>
                  /\ 3 * RatioDen * sc = 2 * r * ScoreDen
                  /\ ComputeScore(r - 1) <= sc

\* A score strictly between 0 and 1.
C2_Witness ==
    /\ Predicting
    /\ response.prediction.performance_ratio > 0
    /\ response.prediction.score > 0
    /\ response.prediction.score < ScoreDen

\* C3: the success probability is 0 for every ratio <= 0; for a ratio > 0 it is
\* exactly 0.5 at ratio 0.8, below 0.5 under 0.8 and above 0.5 over 0.8; and it
\* is non-decreasing in the ratio (never below the probability of the next
\* lower ratio).
C3_ProbabilityIsSigmoid ==
    Predicting =>
        LET r == response.prediction.performance_ratio
            pr == response.prediction.probability
        IN  /\ r <= 0 => pr = 0
            /\ 10 * r = 8 * RatioDen => 2 * pr = FixOne
            /\ (r > 0 /\ 10 * r < 8 * RatioDen) => (pr > 0 /\ 2 * pr < FixOne)
            /\ 10 * r > 8 * RatioDen => (2 * pr > FixOne /\ pr <= FixOne)
            /\ _calculate_success_probability(r - 1) <= pr

\* The probability of the ratio 0.8.
C3_Witness ==
    /\ Predicting
    /\ 10 * response.prediction.performance_ratio = 8 * RatioDen
    /\ 2 * response.prediction.probability = FixOne

\* C4: expectedSales is target * ratio when a target is configured for the
\* location's environment and 0 when none is; a missing target never makes
\* predict_location raise.
C4_ExpectedSalesFromTarget ==
    Predicting =>
        LET entorno == response.location.entorno
            r == response.prediction.performance_ratio
        IN  /\ Configured(entorno) =>
                  response.prediction.expectedSales = ConfiguredTarget(entorno) * r
            /\ ~Configured(entorno) =>
                  (response.ok /\ response.prediction.expectedSales = 0)

\* A prediction for an environment without a target, at a non-zero ratio.
C4_Witness ==
    /\ Predicting /\ response.ok
    /\ ~Configured(response.location.entorno)
    /\ response.prediction.performance_ratio > 0
    /\ response.prediction.expectedSales = 0

\* C5: with a configured positive target, predict_location does not fail,
\* whatever the ratio (negative, above 1).
C5_EveryRatioYieldsAResult ==
    (/\ Predicting
     /\ Configured(response.location.entorno)
     /\ ConfiguredTarget(response.location.entorno) > 0) => response.ok

\* Two locations that differ in every attribute a template prints.
OtherLocations ==
    { Row(None, 257, 0 - 1002, "Base", 0), Row(Some(1), 300, 0 - 900, "Hogar", MaxDoors) }

\* The band of a score by the four thresholds 0.8, 0.6, 0.4.
BandOfScore(sc) ==
    IF 10 * sc >= 8 * ScoreDen THEN "excellent"
    ELSE IF 10 * sc >= 6 * ScoreDen THEN "good"
    ELSE IF 10 * sc >= 4 * ScoreDen THEN "moderate"
    ELSE "low"

\* C6: the recommendation is the template of the score's band (excellent from
\* 0.8, good from 0.6, moderate from 0.4, low below), whatever the expected
\* sales, the probability and the location.
C6_RecommendationBand ==
    Predicting =>
        LET sc == response.prediction.score
        IN  /\ response.prediction.recommendation.template = BandOfScore(sc)
            /\ \A e \in {0, 1}, pr \in {0, FixOne}, location \in OtherLocations :
                  _generate_recommendation(sc, e, pr, location).template = BandOfScore(sc)

\* A score of exactly 0.8, recommended as excellent.
C6_Witness ==
    /\ Predicting
    /\ 10 * response.prediction.score = 8 * ScoreDen
    /\ response.prediction.recommendation.template = "excellent"

\* C7: get_optimal_locations returns min(5, n) of the n stores found, by
\* non-increasing score, stores of equal score in the order in which
\* get_stores_in_area returned them, and no store left out scores strictly
\* higher than a returned one.
C7_TopFiveStableDescending ==
    (Ranking /\ response.ok) =>
        LET found == response.store_scores
            result == response.result
            n == Len(found)
            Pos(store) == CHOOSE i \in 1..n : found[i][1] = store
            Sc(store) == found[Pos(store)][2]
        IN  /\ n = Len(response.existing_stores)
            /\ \A i \in 1..n : found[i][1] = response.existing_stores[i]
            /\ Len(result) = IF n < 5 THEN n ELSE 5
            /\ \A k \in 1..Len(result) : \E i \in 1..n : found[i][1] = result[k]
            /\ \A k, l \in 1..Len(result) :
                  k < l => /\ result[k] # result[l]
                           /\ Sc(result[k]) >= Sc(result[l])
                           /\ Sc(result[k]) = Sc(result[l]) => Pos(result[k]) < Pos(result[l])
            /\ \A i \in 1..n :
                  (\A k \in 1..Len(result) : result[k] # found[i][1]) =>
                      \A k \in 1..Len(result) : Sc(result[k]) >= found[i][2]

\* More than five stores found, two returned stores of equal score, and a
\* ranking that is not the order in which the stores were found.
C7_Witness ==
    /\ Ranking /\ response.ok
    /\ Len(response.existing_stores) > 5
    /\ Len(response.result) = 5
    /\ response.result # SubSeq(response.existing_stores, 1, 5)
    /\ \E k, l \in 1..Len(response.store_scores) :
          /\ k < l
          /\ response.store_scores[k][2] = response.store_scores[l][2]
          /\ \E a, b \in 1..5 : /\ response.result[a] = response.store_scores[k][1]
                                /\ response.result[b] = response.store_scores[l][1]

\* The band a colour stands for.
BandOfColor(color) ==
    IF color = "#10b981" THEN "excellent"
    ELSE IF color = "#3b82f6" THEN "good"
    ELSE IF color = "#f59e0b" THEN "moderate"
    ELSE IF color = "#ef4444" THEN "low"
    ELSE "none"

\* C8: every heatmap point is green from 0.8, blue from 0.6, amber from 0.4
\* and red below, the band of the recommendation text for the same score.
C8_ColorBand ==
    (Mapping /\ response.ok) =>
        \A k \in 1..Len(response.points) :
            LET point == response.points[k]
            IN  /\ BandOfColor(point.color) = BandOfScore(point.score)
                /\ \A location \in OtherLocations :
                      _generate_recommendation(point.score, 0, 0, location).template
                          = BandOfColor(point.color)

\* A heatmap showing all four colours.
C8_Witness ==
    /\ Mapping /\ response.ok
    /\ \A color \in {"#10b981", "#3b82f6", "#f59e0b", "#ef4444"} :
          \E k \in 1..Len(response.points) : response.points[k].color = color

\* C9: without stores the heatmap is the 10 x 10 grid: 100 points, the point of
\* cell (i, j) at the cell's centre and so strictly inside the bounds, all ids
\* distinct, every score in [0.3, 0.9] and every colour the bucket of its score.
C9_PlaceholderGrid ==
    (Mapping /\ response.existing_stores = <<>>) =>
        LET points == response.points
            bounds == response.bounds
        IN  /\ response.ok
            /\ Len(points) = 100
            /\ \A i, j \in 0..9 :
                  LET point == points[10 * i + j + 1]
                  IN  /\ 20 * point.lat =
                            20 * (20 * bounds.south + (2 * i + 1) * (bounds.north - bounds.south))
                      /\ 20 * point.lng =
                            20 * (20 * bounds.west + (2 * j + 1) * (bounds.east - bounds.west))
            /\ \A k \in 1..Len(points) :
                  /\ points[k].lat > 20 * bounds.south /\ points[k].lat < 20 * bounds.north
                  /\ points[k].lng > 20 * bounds.west /\ points[k].lng < 20 * bounds.east
                  /\ 10 * points[k].score >= 3 * ScoreDen
                  /\ 10 * points[k].score <= 9 * ScoreDen
                  /\ BandOfColor(points[k].color) = BandOfScore(points[k].score)
            /\ \A k, l \in 1..Len(points) : k # l => points[k].id # points[l].id

\* A placeholder grid, from its first cell to its last.
C9_Witness ==
    /\ Mapping /\ response.existing_stores = <<>>
    /\ Len(response.points) = 100
    /\ response.points[1].id = "grid_0_0"
    /\ response.points[100].id = "grid_9_9"

\* The stores of both datasets.
AllStores == Range(stores_df) \cup Range(test_stores_df)

InsideBounds(lat20, lng20, bounds) ==
    /\ lat20 >= 20 * bounds.south /\ lat20 <= 20 * bounds.north
    /\ lng20 >= 20 * bounds.west /\ lng20 <= 20 * bounds.east

\* Within 1.5 times the larger half-extent of the bounds (at 111 km per
\* degree) of their centre: 11.12 km per tick of latitude, cos(lat)^2 = 4/5.
InsideSearchCircle(store, bounds) ==
    LET dlat == 2 * store.latitud - (bounds.north + bounds.south)
        dlon == 2 * store.longitud - (bounds.east + bounds.west)
        extent == IF bounds.north - bounds.south >= bounds.east - bounds.west
                  THEN bounds.north - bounds.south ELSE bounds.east - bounds.west
        key == 5 * dlat * dlat + 4 * dlon * dlon
    IN  key <= 1700 /\ 1112 * 1112 * key <= 5 * (1665 * extent) * (1665 * extent)

StoreInside(bounds) ==
    \E store \in AllStores : InsideBounds(20 * store.latitud, 20 * store.longitud, bounds)

\* C11: generate_heatmap returns the placeholder grid only when no store of
\* the loaded datasets lies in the requested area; when a store lies there,
\* the points are built from stores and each carries the score predict_location
\* gives its store.
C11_GridOnlyWithoutStores ==
    (Mapping /\ response.ok /\ StoreInside(response.bounds)) =>
        /\ response.existing_stores # <<>>
        /\ Len(response.points) = Len(response.existing_stores)
        /\ \A k \in 1..Len(response.points) :
              response.points[k].score =
                  predict_location(model, scaler, combined_df, sales_target_df,
                                   response.existing_stores[k]).score

\* C12: at every predict_location call, whichever way the service started
\* and whatever data it loaded, the vector of store_location_to_features has
\* the columns, in the order, of the matrix the scaler and the model in use
\* were fitted on.
C12_VectorMatchesFit ==
    Predicting =>
        /\ response.prediction.X.columns = scaler.feature_names_in_
        /\ Len(response.prediction.X.columns) = model.n_features_in_

\* The combined datasets a process may have loaded.
LoadableData ==
    { load_data(stores, targets).combined_df :
        stores \in TrainingSets, targets \in StartupTargets }

\* The values occurring in a column of a dataset.
Occurring(df, c) == {df[i][c] : i \in 1..Len(df)}

SameCategories(df1, df2) ==
    \A c \in Range(CategoricalColumns) : Occurring(df1, c) = Occurring(df2, c)

EnumerationOf ==
    [nivelSocioeconomico |-> nivel_cats, entorno |-> entorno_cats,
     segmentoMaestro |-> segmento_cats]

\* The six continuous columns, then one indicator per category of each
\* enumeration but its first: 6 + 6 + 3 + 4 = 19 columns.
EnumerationLayout ==
    ContinuousColumns
        \o Flatten([n \in 1..Len(CategoricalColumns) |->
               LET c == CategoricalColumns[n]
               IN  [k \in 1..(Len(EnumerationOf[c]) - 1) |->
                       DummyName(c, EnumerationOf[c][k + 1])]])

\* The place of a value in the sorted values of its column.
Position(c, v) == CHOOSE k \in 1..Len(SortedValues[c]) : SortedValues[c][k] = v

\* The occurring value that sorts first.
FirstOccurring(df, c) ==
    CHOOSE v \in Occurring(df, c) :
        \A u \in Occurring(df, c) : Position(c, v) <= Position(c, u)

InEnumerations(location) ==
    /\ location.nivelSocioeconomico \in {"A", "AB", "B", "BC", "C", "CD", "D"}
    /\ location.entorno \in {"Base", "Hogar", "Peatonal", "Receso"}
    /\ location.segmentoMaestro \in
          {"Barrio Competido", "Clasico", "Hogar Reunion", "Oficinistas", "Parada Tecnica"}

\* A request that got as far as the body of POST /predict-location.
Posted == response.op \in {"predict_location", "rejected"}

\* C15: a location with a category outside its enumeration is never encoded:
\* a request body with such a category ends in an error and no vector, and
\* every location whose vector a handler has computed (the location of a
\* predict_location call, the stores of a heatmap or a ranking) has its three
\* categories inside the enumerations.
C15_UnknownCategoryNeverEncoded ==
    /\ (Posted /\ ~InEnumerations(response.location)) =>
           /\ ~response.ok
           /\ "prediction" \notin DOMAIN response
    /\ (Mapping \/ Ranking) =>
           \A k \in 1..Len(response.existing_stores) :
               InEnumerations(response.existing_stores[k])

\* A body with entorno 'Mall' has been rejected.
C15_Witness ==
    /\ response.op = "rejected"
    /\ response.location.entorno = "Mall"
    /\ response.location.nivelSocioeconomico = "C"
    /\ response.location.latitud = 257

\* The constraints of StoreLocation, with tenths of a degree for the
\* coordinates.
MeetsConstraints(record) ==
    /\ InEnumerations(record)
    /\ 140 <= record.latitud /\ record.latitud <= 330
    /\ 0 - 1185 <= record.longitud /\ record.longitud <= 0 - 865
    /\ ~(record.plazaCve < 1)
    /\ ~(record.mts2Ventas <= 0)
    /\ ~(record.puertasRefrig < 0)
    /\ ~(record.cajonesEstacionamiento < 0)

\* C16: building a StoreLocation fails exactly when a category is outside its
\* enumeration, latitud is outside [14, 33], longitud outside [-118.5, -86.5],
\* plazaCve < 1, mts2Ventas <= 0, or puertasRefrig or cajonesEstacionamiento
\* is negative: a posted body is rejected if and only if it breaks one of
\* them, and every store built from a dataset row meets all of them.
C16_StoreLocationConstraints ==
    /\ Posted => (response.op = "rejected" <=> ~MeetsConstraints(response.location))
    /\ (Mapping \/ Ranking) =>
           \A k \in 1..Len(response.existing_stores) :
               MeetsConstraints(response.existing_stores[k])

\* A body at the northern limit, latitud 33.0, has been accepted.
C16_Witness ==
    /\ response.op = "predict_location"
    /\ response.location.latitud = 330

\* C17: a failed write of the audit-log record never reaches the caller:
\* whether or not the record of the call was written, predict_location
\* returns when every step up to the response has succeeded, and what it
\* returns is the response computed from the location alone.
C17_LogFailureNeverSurfaces ==
    Predicting =>
        LET p == predict_location(model, scaler, combined_df, sales_target_df,
                                  response.location)
        IN  /\ response.ok <=> p.ok
            /\ response.prediction = p

\* A call has returned its response although no log record of this second
\* exists: the write failed.
C17_Witness ==
    /\ Predicting
    /\ response.ok
    /\ clock \notin logFiles

InputVectors(columns) ==
    { [columns |-> columns,
       values |-> [k \in 1..Len(columns) |-> IF k = 3 THEN d ELSE 0]] :
        d \in 0..MaxDoors }

\* self.model.predict(self.scaler.transform(X))[0], or that the call raises.
ModelOutput(m, sc, X) ==
    LET X_scaled == scaler_transform(sc, X)
    IN  [ok |-> X_scaled.ok /\ Len(X_scaled.values) = m.n_features_in_,
         performance_ratio |-> model_predict(m, X_scaled.values)]

\* The service a process starting now would get from the files.
NewService ==
    _load_or_train_model(combined_df, Files,
                         CHOOSE fit \in StartupFits(combined_df) : TRUE, 2)

Analyzing == response.op = "analyze_location"

\* get_stores_in_area raises inside its try block: a row within the radius
\* of the centre (lat2, lng2) cannot be built into a StoreLocation.
AreaLookupRaises(lat2, lng2, radius200) ==
    \E row \in AllStores :
        /\ WithinRadius(DistanceKey(row, lat2, lng2), radius200)
        /\ ~StoreLocationValid(row)

\* C21: every internal error of predict_location, analyze_location,
\* get_optimal_locations and generate_heatmap reaches the caller as a
\* failure: a call in which the area search raised, or in which the
\* prediction of one store of the area raised, does not return, and a call
\* that does not return hands back no part of a result.
C21_ErrorsReachTheCaller ==
    /\ Ranking =>
          /\ AreaLookupRaises(response.area.lat2, response.area.lng2,
                              200 * response.area.radius) => ~response.ok
          /\ response.ok => \A k \in 1..Len(response.existing_stores) :
                predict_location(model, scaler, combined_df, sales_target_df,
                                 response.existing_stores[k]).ok
          /\ ~response.ok => response.result = <<>>
    /\ Mapping =>
          /\ AreaLookupRaises(response.centerLat2, response.centerLng2,
                              HeatmapRadius(response.bounds)) => ~response.ok
          /\ response.ok => \A k \in 1..Len(response.existing_stores) :
                predict_location(model, scaler, combined_df, sales_target_df,
                                 response.existing_stores[k]).ok
          /\ ~response.ok => response.points = <<>>
    /\ Analyzing =>
          /\ AreaLookupRaises(2 * response.location.latitud, 2 * response.location.longitud,
                              200 * NearbyRadiusKm) => ~response.ok
          /\ response.ok => response.prediction.ok
    /\ Predicting => (response.ok => response.prediction.ok)

\* The number a string of decimal digits denotes.
RECURSIVE ParseInt(_)
ParseInt(digits) ==
    IF digits = <<>> THEN 0
    ELSE 10 * ParseInt(SubSeq(digits, 1, Len(digits) - 1)) + digits[Len(digits)]

\* The calendar month and the year an entry's id names, read as YYYYMM.
MonthOf(entry) == ParseInt(entry.month) % 100
YearOf(entry) == ParseInt(entry.month) \div 100

\* A forecast was generated: predict_location returned.
Forecasting == Analyzing /\ response.prediction.ok

SeasonalBase(entry) ==
    (response.prediction.expectedSales \div SalesUnit) * seasonal_factors[MonthOf(entry)]

\* C23: each forecast amount lies between 0.95 and 1.05 times the base
\* expected sales times the seasonal multiplier of the entry's month; it is
\* not negative, every entry passes the SalesForecast validation, and the
\* analysis whose prediction returned returns.
C23_AmountWithinFivePercent ==
    Forecasting =>
        /\ \A k \in 1..Len(response.salesForecast) :
              LET entry == response.salesForecast[k]
              IN  /\ entry.amount >= 950 * SeasonalBase(entry)
                  /\ entry.amount <= 1050 * SeasonalBase(entry)
                  /\ entry.amount >= 0
                  /\ SalesForecastValid(entry)
        /\ response.ok

\* A forecast on a positive base with an amount below and an amount above
\* the seasonal base.
C23_Witness ==
    /\ Forecasting
    /\ response.ok
    /\ response.prediction.expectedSales > 0
    /\ \E k \in 1..Len(response.salesForecast) :
          response.salesForecast[k].amount < 1000 * SeasonalBase(response.salesForecast[k])
    /\ \E k \in 1..Len(response.salesForecast) :
          response.salesForecast[k].amount > 1000 * SeasonalBase(response.salesForecast[k])

\* The two files are the model and the scaler of one training run: some fit
\* on some loadable dataset gives both.
FromOneRun(mf, sf) ==
    \E df \in LoadableData : \E fit \in StartupFits(df) :
        /\ mf = joblib_dump(fit.model)
        /\ sf = joblib_dump(fit.scaler)

Logging == /\ response = NoResponse
           /\ response' # NoResponse
           /\ "logged" \in DOMAIN response'

\* C25: a request whose log writes succeed adds one record to the audit log
\* for each prediction it logged and keeps every earlier record, also when
\* the predictions are made within the same second.
C25_EveryLoggedPredictionAddsARecord ==
    [][Logging => /\ logFiles \subseteq logFiles'
                  /\ Cardinality(logFiles') = Cardinality(logFiles) + response'.logged]_vars

\* The places of the indicator block of attribute c in a vector.
Block(X, c) ==
    {k \in 1..Len(X.columns) :
        \E v \in Range(SortedValues[c]) : X.columns[k] = DummyName(c, v)}

\* The first six entries are the location's continuous attributes, and each
\* block holds at most one 1, at the indicator of the location's category.
ContinuousThenIndicators(X, location) ==
    /\ Len(X.values) = Len(X.columns)
    /\ Len(X.columns) >= Len(ContinuousColumns)
    /\ \A k \in 1..Len(ContinuousColumns) :
          /\ X.columns[k] = ContinuousColumns[k]
          /\ X.values[k] = location[ContinuousColumns[k]]
    /\ \A c \in Range(CategoricalColumns) :
          /\ \A k \in Block(X, c) :
                /\ X.values[k] \in {0, 1}
                /\ X.values[k] = 1 <=> X.columns[k] = DummyName(c, location[c])
          /\ Cardinality({k \in Block(X, c) : X.values[k] = 1}) <= 1

AllZero(X, c) == \A k \in Block(X, c) : X.values[k] = 0

C27_ExactlyTheStoresWithinRadius ==
    Mapping =>
        LET all_stores_df == stores_df \o test_stores_df
            found == response.existing_stores
            Key(row) == DistanceKey(row, response.centerLat2, response.centerLng2)
            radius200 == HeatmapRadius(response.bounds)
            within == {i \in 1..Len(all_stores_df) :
                          WithinRadius(Key(all_stores_df[i]), radius200)}
        IN  /\ \A k \in 1..Len(found) : WithinRadius(Key(found[k]), radius200)
            /\ \A i \in within : \E k \in 1..Len(found) : found[k] = all_stores_df[i]
            /\ Len(found) = Cardinality(within)
            /\ \A k \in 1..(Len(found) - 1) : Key(found[k]) <= Key(found[k + 1])

\* A step in which a request is served.
Requesting == response = NoResponse /\ response' # NoResponse

\* The locations a request may ask a prediction for.
AskedLocations ==
    OtherLocations \cup {Row(None, 257, 0 - 1002, "Hogar", 12),
                         CatRow(None, "A", "Peatonal", "Oficinistas")}

\* Two predict_location calls return the same to their callers: both raise,
\* or both return the same score, expectedSales, probability and
\* recommendation.
SameReturned(p, q) ==
    \A a \in {p} : \A b \in {q} :
        /\ a.ok = b.ok
        /\ a.ok => /\ a.score = b.score
                   /\ a.expectedSales = b.expectedSales
                   /\ a.probability = b.probability
                   /\ a.recommendation = b.recommendation

\* C28: no request (predict, analyze, rank, heatmap, store lookup) changes
\* the loaded store, sales and target datasets, and none changes what
\* predict_location returns for any location: the result served by a
\* predict_location request is the one the state before the request gives,
\* and the state after the request gives every location the same score,
\* expectedSales, probability and recommendation as the state before.
C28_ResultsIndependentOfHistory ==
    [][Requesting =>
          /\ UNCHANGED dataVars
          /\ \A location \in AskedLocations :
                SameReturned(predict_location(model', scaler', combined_df', sales_target_df',
                                              location),
                             predict_location(model, scaler, combined_df, sales_target_df,
                                              location))
          /\ (response'.op = "predict_location" /\ response'.ok) =>
                SameReturned(response'.prediction,
                             predict_location(model, scaler, combined_df, sales_target_df,
                                              response'.location))]_vars

\* A prediction served after a ranking, a heatmap and a lookup have been
\* served and logged.
C28_Witness ==
    /\ Predicting
    /\ response.ok
    /\ logFiles # {}
    /\ store_cache # <<>>

\* C29: the points of a heatmap built from stores have pairwise distinct
\* ids, whatever the tiendaId of the stores and whichever file they come
\* from.
C29_PointIdsDistinct ==
    (Mapping /\ response.ok /\ response.existing_stores # <<>>) =>
        \A j, k \in 1..Len(response.points) :
            j # k => response.points[j].id # response.points[k].id

\* A returned get_store_by_id call.
Looking == response.op = "get_store_by_id"

\* The rows with the id in a loaded dataset.
RowsWithId(df, store_id) == SelectSeq(df, LAMBDA row : row.tiendaId = Some(store_id))

\* C30: get_store_by_id returns the store with the id in the training
\* dataset as loaded now if there is one, otherwise the one in the test
\* dataset as loaded now, otherwise None, also after load_data has run again.
C30_LookupReflectsLoadedData ==
    Looking =>
        response.result =
            IF RowsWithId(stores_df, response.store_id) # <<>>
            THEN Some(RowsWithId(stores_df, response.store_id)[1])
            ELSE IF RowsWithId(test_stores_df, response.store_id) # <<>>
            THEN Some(RowsWithId(test_stores_df, response.store_id)[1])
            ELSE None

====
